---- MODULE Spec2Model ----
(***************************************************************************)
(* The bridging engine of rust-libp2p-nym (src/src/mixnet.rs): one pump    *)
(* task per node that races check_inbound against check_outbound in a      *)
(* futures::select! loop, between a mixnet client and two unbounded        *)
(* queues.  Two nodes, "A" and "B", run the same pump; the mixnet between  *)
(* them delivers packets in any order and may lose them.                   *)
(***************************************************************************)
EXTENDS Integers, Sequences, FiniteSets, TLC

\* ------------------------------------------------------------------ bounds
\* What the environment does over a run: OutboundMessages enqueued, packets
\* sent by third parties, channel counterparts dropped, streams ended.
MaxEvents == 3

\* ------------------------------------------------------------ data model
Nodes == {"A", "B"}
Producers == {"p1", "p2"}
None == "None"

\* Anonymous sender tags: the tag under which the mixnet shows a node's
\* traffic to its receiver, and the tag of a third party outside the model.
TagOf(n) == IF n = "A" THEN "tagA" ELSE "tagB"
ExtTag == "tagX"
Tags == {TagOf(n) : n \in Nodes} \cup {ExtTag}
\* Where the mixnet routes a reply addressed to a tag.
TagDest(t) == IF t = "tagA" THEN "A" ELSE IF t = "tagB" THEN "B" ELSE "ext"

\* Identifiers and payloads are opaque; small numbers stand for them.
Ping == <<112, 105, 110, 103>>
Hello == <<104, 101, 108, 108, 111>>
Pong == <<112, 111, 110, 103>>

ConnectionIds == {1, 2}
SubstreamIds == {1, 2}
Nonces == {1, 2}
Payloads == {Ping, Hello, Pong}

Data(bytes) == [t |-> "Data", data |-> bytes]
Close == [t |-> "Close", data |-> <<>>]
OpenRequest == [t |-> "OpenRequest", data |-> <<>>]
OpenResponse == [t |-> "OpenResponse", data |-> <<>>]

SubstreamMessage(sid, mt) == [substream_id |-> sid, message_type |-> mt]

TransportMessage(nonce, cid, sm) ==
    [kind |-> "TransportMessage", nonce |-> nonce, id |-> cid, message |-> sm]

NoSubstream == SubstreamMessage(0, Close)
ConnectionRequest == [kind |-> "ConnectionRequest", nonce |-> 0, id |-> 0, message |-> NoSubstream]
ConnectionResponse == [kind |-> "ConnectionResponse", nonce |-> 0, id |-> 0, message |-> NoSubstream]

\* -------------------------------------------------------- wire encoding
\* Message::to_bytes: a kind byte, then for a TransportMessage the nonce,
\* the connection id, the substream id, a type byte and the Data payload.
TypeByte(mt) ==
    IF mt.t = "OpenRequest" THEN 0
    ELSE IF mt.t = "OpenResponse" THEN 1
    ELSE IF mt.t = "Close" THEN 2
    ELSE 3

to_bytes(m) ==
    IF m.kind = "ConnectionRequest" THEN <<0>>
    ELSE IF m.kind = "ConnectionResponse" THEN <<1>>
    ELSE <<2, m.nonce, m.id, m.message.substream_id, TypeByte(m.message.message_type)>>
            \o m.message.message_type.data

Malformed == [ok |-> FALSE, msg |-> ConnectionRequest]

\* Message::from_bytes: fails on an ill-formed buffer.
from_bytes(b) ==
    IF Len(b) = 0 THEN Malformed
    ELSE IF b[1] = 0 /\ Len(b) = 1 THEN [ok |-> TRUE, msg |-> ConnectionRequest]
    ELSE IF b[1] = 1 /\ Len(b) = 1 THEN [ok |-> TRUE, msg |-> ConnectionResponse]
    ELSE IF b[1] = 2 /\ Len(b) >= 5
        THEN IF b[5] = 3
                THEN [ok |-> TRUE,
                      msg |-> TransportMessage(b[2], b[3],
                                 SubstreamMessage(b[4], Data(SubSeq(b, 6, Len(b)))))]
             ELSE IF b[5] \in {0, 1, 2} /\ Len(b) = 5
                THEN [ok |-> TRUE,
                      msg |-> TransportMessage(b[2], b[3],
                                 SubstreamMessage(b[4],
                                    IF b[5] = 0 THEN OpenRequest
                                    ELSE IF b[5] = 1 THEN OpenResponse ELSE Close))]
             ELSE Malformed
    ELSE Malformed

\* parse_message_data: decode the packet's bytes and pair the Message with
\* the sender tag it is given.
parse_message_data(bytes, sender_tag) ==
    LET d == from_bytes(bytes)
    IN  [ok |-> d.ok, data |-> [message |-> d.msg, sender_tag |-> sender_tag]]

\* ------------------------------------------------------------------ state
VARIABLES
    outbound,       \* [node -> Seq(OutboundMessage)]: outbound_rx's queue
    outboundOpen,   \* [node -> BOOLEAN]: some outbound_tx sender is alive
    nextId,         \* number given to the next OutboundMessage enqueued
    stream,         \* [node -> Seq(ReconstructedMessage)]: packets the client holds ready
    streamEnded,    \* [node -> BOOLEAN]: the client's stream has ended
    inbound,        \* [node -> Seq(InboundMessage)]: all that was sent on inbound_tx, in order
    inboundOpen,    \* [node -> BOOLEAN]: inbound_rx is alive
    notify,         \* [node -> "none" | "open" | "closed"]: notify_inbound_tx
    notified,       \* [node -> Nat]: signals sent on the notify channel
    pc,             \* [node -> "select" | "send" | "exited"]: the pump task's position
    calls,          \* [node -> Seq(call)]: send_message / send_reply calls started, in order
    rejected,       \* [node -> Seq(OutboundMessage)]: dequeued messages that had no route
    last,           \* [node -> the branch that ended the last iteration, its result]
    taken,          \* [node -> Seq(packet, result, effects)]: packets client.next() has yielded
    net,            \* packets the mixnet holds in flight
    events          \* what the environment has done so far, counted

vars == <<outbound, outboundOpen, nextId, stream, streamEnded, inbound, inboundOpen,
          notify, notified, pc, calls, rejected, last, taken, net, events>>

PingMsg == TransportMessage(1, 1, SubstreamMessage(1, Data(Ping)))
CloseMsg == TransportMessage(2, 1, SubstreamMessage(1, Close))

\* What the producers enqueue: [message, recipient, sender_tag].
Envelope(m, r, t) == [message |-> m, recipient |-> r, sender_tag |-> t]
OutEnvelopes ==
    { Envelope(PingMsg, "A", None), Envelope(CloseMsg, None, "tagB"),
      Envelope(PingMsg, "A", "tagB"), Envelope(PingMsg, None, None) }

\* What third parties send: a decodable packet or garbage, with or without a tag.
Garbage == <<2, 1, 1>>
ExtPackets ==
    { [message |-> to_bytes(PingMsg), sender_tag |-> ExtTag],
      [message |-> to_bytes(PingMsg), sender_tag |-> None],
      [message |-> Garbage, sender_tag |-> None] }

NoIteration == [branch |-> "none", result |-> "none", took |-> "nothing"]

Init ==
    /\ outbound = [n \in Nodes |-> <<>>]
    /\ outboundOpen = [n \in Nodes |-> TRUE]
    /\ nextId = 1
    /\ stream = [n \in Nodes |-> <<>>]
    /\ streamEnded = [n \in Nodes |-> FALSE]
    /\ inbound = [n \in Nodes |-> <<>>]
    /\ inboundOpen = [n \in Nodes |-> TRUE]
    /\ notify \in {[n \in Nodes |-> IF n = "A" THEN t ELSE "none"] : t \in {"none", "open"}}
    /\ notified = [n \in Nodes |-> 0]
    /\ pc = [n \in Nodes |-> "select"]
    /\ calls = [n \in Nodes |-> <<>>]
    /\ rejected = [n \in Nodes |-> <<>>]
    /\ last = [n \in Nodes |-> NoIteration]
    /\ taken = [n \in Nodes |-> <<>>]
    /\ net = {}
    /\ events = 0

\* -------------------------------------------------------------- the pump
\* Variants of the loop that leave it on an error: on any Err, and on the
\* Err(Unimplemented) of a failed send.
AfterIterationBreakOnErr(result) == IF result = "Ok" THEN "select" ELSE "exited"

AfterIterationBreakOnSendFailure(result) ==
    IF result = "Unimplemented" THEN "exited" ELSE "select"

\* The loop of the spawned task: select! discards the result of whichever
\* branch finished and the loop goes round again.
AfterIteration(result) == "select"

\* Variants of the match: the recipient arm tried first, a send attempted
\* without a route, and a Data message turned away.
DispatchRecipientFirst(env) ==
    IF env.recipient # None
        THEN [kind |-> "send", to |-> env.recipient, bytes |-> to_bytes(env.message)]
    ELSE IF env.sender_tag # None
        THEN [kind |-> "reply", to |-> env.sender_tag, bytes |-> to_bytes(env.message)]
    ELSE [kind |-> "none", to |-> None, bytes |-> <<>>]

DispatchUnrouted(env) ==
    IF env.sender_tag # None
        THEN [kind |-> "reply", to |-> env.sender_tag, bytes |-> to_bytes(env.message)]
    ELSE [kind |-> "send", to |-> env.recipient, bytes |-> to_bytes(env.message)]

DispatchSkipsData(env) ==
    IF env.message.message.message_type.t = "Data"
        THEN [kind |-> "none", to |-> None, bytes |-> <<>>]
    ELSE IF env.sender_tag # None
        THEN [kind |-> "reply", to |-> env.sender_tag, bytes |-> to_bytes(env.message)]
    ELSE IF env.recipient # None
        THEN [kind |-> "send", to |-> env.recipient, bytes |-> to_bytes(env.message)]
    ELSE [kind |-> "none", to |-> None, bytes |-> <<>>]

\* check_outbound's match on (recipient, sender_tag): which primitive is
\* called, with what target and bytes.
Dispatch(env) ==
    IF env.sender_tag # None
        THEN [kind |-> "reply", to |-> env.sender_tag, bytes |-> to_bytes(env.message)]
    ELSE IF env.recipient # None
        THEN [kind |-> "send", to |-> env.recipient, bytes |-> to_bytes(env.message)]
    ELSE [kind |-> "none", to |-> None, bytes |-> <<>>]

\* write_bytes / write_reply_bytes: the client's error becomes Unimplemented.
write_bytes(ok) == IF ok THEN "Ok" ELSE "Unimplemented"

\* A variant of handle_inbound that does not pass the packet's tag on.
handle_inbound_untagged(msg, queue, open) ==
    LET parsed == parse_message_data(msg.message, None)
    IN  IF ~parsed.ok
            THEN [result |-> "MalformedMessage", queue |-> queue, effects |-> <<"decode">>]
        ELSE IF ~open
            THEN [result |-> "InboundSendFailure", queue |-> queue,
                  effects |-> <<"decode", "queue">>]
        ELSE [result |-> "Ok", queue |-> Append(queue, parsed.data),
              effects |-> <<"decode", "queue">>]

\* A variant that forwards only the first message of each (connection id,
\* nonce) pair.
handle_inbound_dedup(msg, queue, open) ==
    LET parsed == parse_message_data(msg.message, msg.sender_tag)
        Seen == \E i \in DOMAIN queue :
                    /\ queue[i].message.id = parsed.data.message.id
                    /\ queue[i].message.nonce = parsed.data.message.nonce
    IN  IF ~parsed.ok
            THEN [result |-> "MalformedMessage", queue |-> queue, effects |-> <<"decode">>]
        ELSE IF ~open
            THEN [result |-> "InboundSendFailure", queue |-> queue,
                  effects |-> <<"decode", "queue">>]
        ELSE IF Seen
            THEN [result |-> "Ok", queue |-> queue, effects |-> <<"decode">>]
        ELSE [result |-> "Ok", queue |-> Append(queue, parsed.data),
              effects |-> <<"decode", "queue">>]

\* handle_inbound: decode, then send on inbound_tx.  effects lists what was
\* attempted, in the order of the code.
handle_inbound(msg, queue, open) ==
    LET parsed == parse_message_data(msg.message, msg.sender_tag)
    IN  IF ~parsed.ok
            THEN [result |-> "MalformedMessage", queue |-> queue, effects |-> <<"decode">>]
        ELSE IF ~open
            THEN [result |-> "InboundSendFailure", queue |-> queue,
                  effects |-> <<"decode", "queue">>]
        ELSE [result |-> "Ok", queue |-> Append(queue, parsed.data),
              effects |-> <<"decode", "queue">>]

\* A variant of check_inbound with handle_inbound inside the notify block.
check_inbound_in_notify_block(msg, notifyTx, queue, open) ==
    IF notifyTx = "closed"
        THEN [result |-> "InboundSendFailure", signals |-> 0, queue |-> queue,
              effects |-> <<"notify">>]
    ELSE IF notifyTx = "none"
        THEN [result |-> "Unimplemented", signals |-> 0, queue |-> queue,
              effects |-> <<>>]
    ELSE LET h == handle_inbound(msg, queue, open)
         IN  [result |-> IF h.result = "Ok" THEN "Unimplemented" ELSE h.result,
              signals |-> 1,
              queue |-> h.queue,
              effects |-> <<"notify">> \o h.effects]

\* A variant that queues the message first and signals afterwards.
check_inbound_queue_first(msg, notifyTx, queue, open) ==
    LET h == handle_inbound(msg, queue, open)
    IN  IF h.result # "Ok"
            THEN [result |-> h.result, signals |-> 0, queue |-> h.queue,
                  effects |-> h.effects]
        ELSE IF notifyTx = "closed"
            THEN [result |-> "InboundSendFailure", signals |-> 0, queue |-> h.queue,
                  effects |-> h.effects \o <<"notify">>]
        ELSE [result |-> "Unimplemented",
              signals |-> IF notifyTx = "open" THEN 1 ELSE 0,
              queue |-> h.queue,
              effects |-> IF notifyTx = "open" THEN h.effects \o <<"notify">>
                          ELSE h.effects]

\* A variant that goes on to decode and queue when the notify send fails.
check_inbound_ignores_notify_error(msg, notifyTx, queue, open) ==
    LET h == handle_inbound(msg, queue, open)
    IN  [result |-> IF h.result = "Ok" THEN "Unimplemented" ELSE h.result,
         signals |-> IF notifyTx = "open" THEN 1 ELSE 0,
         queue |-> h.queue,
         effects |-> IF notifyTx = "none" THEN h.effects ELSE <<"notify">> \o h.effects]

\* check_inbound once client.next() has yielded msg: the notify signal, then
\* handle_inbound; the success path ends in Err(Unimplemented) too.
check_inbound(msg, notifyTx, queue, open) ==
    IF notifyTx = "closed"
        THEN [result |-> "InboundSendFailure", signals |-> 0, queue |-> queue,
              effects |-> <<"notify">>]
    ELSE LET h == handle_inbound(msg, queue, open)
         IN  [result |-> IF h.result = "Ok" THEN "Unimplemented" ELSE h.result,
              signals |-> IF notifyTx = "open" THEN 1 ELSE 0,
              queue |-> h.queue,
              effects |-> IF notifyTx = "open" THEN <<"notify">> \o h.effects
                          ELSE h.effects]

\* select! drops the future that did not finish: a send or reply call that
\* check_outbound was awaiting is abandoned.
DropPending(cs) ==
    IF cs # <<>> /\ cs[Len(cs)].state = "pending"
        THEN [cs EXCEPT ![Len(cs)].state = "cancelled"]
    ELSE cs

\* The packet the mixnet carries for a call: a direct send reaches its
\* recipient with the sender's tag (IncludedSurbs::default()), a reply
\* reaches the tag's owner without one.
MixnetPacket(n, c) ==
    [id |-> c.id,
     dest |-> IF c.kind = "send" THEN c.to ELSE TagDest(c.to),
     message |-> c.bytes,
     sender_tag |-> IF c.kind = "send" THEN TagOf(n) ELSE None]

Accept(n, c) == IF MixnetPacket(n, c).dest \in Nodes THEN {MixnetPacket(n, c)} ELSE {}

\* A producer sends an OutboundMessage on its clone of outbound_tx.
Produce(p, n, e) ==
    /\ events < MaxEvents
    /\ outboundOpen[n]
    /\ outbound' = [outbound EXCEPT ![n] =
            Append(@, [id |-> nextId, message |-> e.message,
                       recipient |-> e.recipient, sender_tag |-> e.sender_tag])]
    /\ nextId' = nextId + 1
    /\ events' = events + 1
    /\ UNCHANGED <<outboundOpen, stream, streamEnded, inbound, inboundOpen, notify,
                   notified, pc, calls, rejected, last, net, taken>>

\* A variant that takes the newest message of the queue instead of the oldest.
CheckOutboundRecvNewest(n) ==
    /\ pc[n] = "select"
    /\ outbound[n] # <<>>
    /\ LET env == outbound[n][Len(outbound[n])]
           d == Dispatch(env)
       IN  /\ outbound' = [outbound EXCEPT ![n] = SubSeq(@, 1, Len(@) - 1)]
           /\ IF d.kind = "none"
                 THEN /\ rejected' = [rejected EXCEPT ![n] = Append(@, env)]
                      /\ last' = [last EXCEPT ![n] =
                            [branch |-> "outbound", result |-> "OutboundSendFailure",
                             took |-> "message"]]
                      /\ pc' = [pc EXCEPT ![n] = AfterIteration("OutboundSendFailure")]
                      /\ UNCHANGED calls
                 ELSE /\ calls' = [calls EXCEPT ![n] =
                            Append(@, [id |-> env.id, env |-> env, kind |-> d.kind,
                                       to |-> d.to, bytes |-> d.bytes, state |-> "pending"])]
                      /\ pc' = [pc EXCEPT ![n] = "send"]
                      /\ UNCHANGED <<rejected, last>>
    /\ UNCHANGED <<outboundOpen, nextId, stream, streamEnded, inbound, inboundOpen,
                   notify, notified, net, events, taken>>

\* check_outbound: recv() yields a message; without a route it returns the
\* error, otherwise the send or reply call is started and awaited.
CheckOutboundRecv(n) ==
    /\ pc[n] = "select"
    /\ outbound[n] # <<>>
    /\ LET env == Head(outbound[n])
           d == Dispatch(env)
       IN  /\ outbound' = [outbound EXCEPT ![n] = Tail(@)]
           /\ IF d.kind = "none"
                 THEN /\ rejected' = [rejected EXCEPT ![n] = Append(@, env)]
                      /\ last' = [last EXCEPT ![n] =
                            [branch |-> "outbound", result |-> "OutboundSendFailure",
                             took |-> "message"]]
                      /\ pc' = [pc EXCEPT ![n] = AfterIteration("OutboundSendFailure")]
                      /\ UNCHANGED calls
                 ELSE /\ calls' = [calls EXCEPT ![n] =
                            Append(@, [id |-> env.id, env |-> env, kind |-> d.kind,
                                       to |-> d.to, bytes |-> d.bytes, state |-> "pending"])]
                      /\ pc' = [pc EXCEPT ![n] = "send"]
                      /\ UNCHANGED <<rejected, last>>
    /\ UNCHANGED <<outboundOpen, nextId, stream, streamEnded, inbound, inboundOpen,
                   notify, notified, net, events, taken>>

\* check_outbound: recv() yields None, every sender is gone: Err(RecvFailure).
CheckOutboundClosed(n) ==
    /\ pc[n] = "select"
    /\ outbound[n] = <<>>
    /\ ~outboundOpen[n]
    /\ last' = [last EXCEPT ![n] =
            [branch |-> "outbound", result |-> "RecvFailure", took |-> "nothing"]]
    /\ pc' = [pc EXCEPT ![n] = AfterIteration("RecvFailure")]
    /\ UNCHANGED <<outbound, outboundOpen, nextId, stream, streamEnded, inbound,
                   inboundOpen, notify, notified, calls, rejected, net, events, taken>>

\* A variant that puts a message whose call failed back on the queue.
SendResolveRetry(n, ok) ==
    /\ pc[n] = "send"
    /\ LET i == Len(calls[n])
           c == calls[n][i]
       IN  /\ calls' = [calls EXCEPT ![n][i].state = IF ok THEN "ok" ELSE "failed"]
           /\ net' = IF ok THEN net \cup Accept(n, c) ELSE net
           /\ outbound' = IF ok THEN outbound
                          ELSE [outbound EXCEPT ![n] = <<c.env>> \o @]
    /\ last' = [last EXCEPT ![n] =
            [branch |-> "outbound", result |-> write_bytes(ok), took |-> "message"]]
    /\ pc' = [pc EXCEPT ![n] = AfterIteration(write_bytes(ok))]
    /\ UNCHANGED <<outboundOpen, nextId, stream, streamEnded, inbound,
                   inboundOpen, notify, notified, rejected, events, taken>>

\* The client resolves the awaited send_message / send_reply call.
SendResolve(n, ok) ==
    /\ pc[n] = "send"
    /\ LET i == Len(calls[n])
           c == calls[n][i]
       IN  /\ calls' = [calls EXCEPT ![n][i].state = IF ok THEN "ok" ELSE "failed"]
           /\ net' = IF ok THEN net \cup Accept(n, c) ELSE net
    /\ last' = [last EXCEPT ![n] =
            [branch |-> "outbound", result |-> write_bytes(ok), took |-> "message"]]
    /\ pc' = [pc EXCEPT ![n] = AfterIteration(write_bytes(ok))]
    /\ UNCHANGED <<outbound, outboundOpen, nextId, stream, streamEnded, inbound,
                   inboundOpen, notify, notified, rejected, events, taken>>

\* A variant with a suspension point between client.next() and the queueing:
\* taken while a send or reply is awaited, the packet is dropped with the
\* branch.
CheckInboundNextSuspends(n) ==
    /\ pc[n] \in {"select", "send"}
    /\ stream[n] # <<>>
    /\ LET r == check_inbound(Head(stream[n]), notify[n], inbound[n], inboundOpen[n])
       IN  /\ stream' = [stream EXCEPT ![n] = Tail(@)]
           /\ notified' = [notified EXCEPT ![n] = @ + r.signals]
           /\ inbound' = [inbound EXCEPT ![n] = IF pc[n] = "send" THEN @ ELSE r.queue]
           /\ last' = [last EXCEPT ![n] =
                 [branch |-> "inbound", result |-> r.result, took |-> "packet"]]
           /\ pc' = [pc EXCEPT ![n] = AfterIteration(r.result)]
           /\ taken' = [taken EXCEPT ![n] =
                 Append(@, [packet |-> Head(stream[n]), result |-> r.result,
                            effects |-> r.effects])]
    /\ calls' = [calls EXCEPT ![n] = DropPending(@)]
    /\ UNCHANGED <<outbound, outboundOpen, nextId, streamEnded, inboundOpen, notify,
                   rejected, net, events>>

\* check_inbound: client.next() yields a packet and the branch runs to its
\* end without suspending; the other branch is dropped, and with it
\* a send or reply call it was awaiting.
CheckInboundNext(n) ==
    /\ pc[n] \in {"select", "send"}
    /\ stream[n] # <<>>
    /\ LET r == check_inbound(Head(stream[n]), notify[n], inbound[n], inboundOpen[n])
       IN  /\ stream' = [stream EXCEPT ![n] = Tail(@)]
           /\ notified' = [notified EXCEPT ![n] = @ + r.signals]
           /\ inbound' = [inbound EXCEPT ![n] = r.queue]
           /\ last' = [last EXCEPT ![n] =
                 [branch |-> "inbound", result |-> r.result, took |-> "packet"]]
           /\ pc' = [pc EXCEPT ![n] = AfterIteration(r.result)]
           /\ taken' = [taken EXCEPT ![n] =
                 Append(@, [packet |-> Head(stream[n]), result |-> r.result,
                            effects |-> r.effects])]
    /\ calls' = [calls EXCEPT ![n] = DropPending(@)]
    /\ UNCHANGED <<outbound, outboundOpen, nextId, streamEnded, inboundOpen, notify,
                   rejected, net, events>>

\* check_inbound: client.next() yields None, the stream has ended: the
\* branch returns at once.
CheckInboundEnd(n) ==
    /\ pc[n] \in {"select", "send"}
    /\ stream[n] = <<>>
    /\ streamEnded[n]
    /\ last' = [last EXCEPT ![n] =
            [branch |-> "inbound", result |-> "Unimplemented", took |-> "nothing"]]
    /\ pc' = [pc EXCEPT ![n] = AfterIteration("Unimplemented")]
    /\ calls' = [calls EXCEPT ![n] = DropPending(@)]
    /\ UNCHANGED <<outbound, outboundOpen, nextId, stream, streamEnded, inbound,
                   inboundOpen, notify, notified, rejected, net, events, taken>>

\* ------------------------------------------------------- the environment
\* The mixnet hands a packet to its destination's client, in any order; a
\* packet it loses is one it never hands over.
NetDeliver(pkt) ==
    /\ pkt \in net
    /\ ~streamEnded[pkt.dest]
    /\ net' = net \ {pkt}
    /\ stream' = [stream EXCEPT ![pkt.dest] =
            Append(@, [message |-> pkt.message, sender_tag |-> pkt.sender_tag])]
    /\ UNCHANGED <<outbound, outboundOpen, nextId, streamEnded, inbound, inboundOpen,
                   notify, notified, pc, calls, rejected, last, events, taken>>

\* A third party's packet reaches a node's client.
External(n, pkt) ==
    /\ events < MaxEvents
    /\ ~streamEnded[n]
    /\ stream' = [stream EXCEPT ![n] = Append(@, pkt)]
    /\ events' = events + 1
    /\ UNCHANGED <<outbound, outboundOpen, nextId, streamEnded, inbound, inboundOpen,
                   notify, notified, pc, calls, rejected, last, net, taken>>

\* The layer above drops inbound_rx.
DropInboundRx(n) ==
    /\ events < MaxEvents
    /\ inboundOpen[n]
    /\ inboundOpen' = [inboundOpen EXCEPT ![n] = FALSE]
    /\ events' = events + 1
    /\ UNCHANGED <<outbound, outboundOpen, nextId, stream, streamEnded, inbound, notify,
                   notified, pc, calls, rejected, last, net, taken>>

\* The layer above drops its last outbound_tx.
DropOutboundTx(n) ==
    /\ events < MaxEvents
    /\ outboundOpen[n]
    /\ outboundOpen' = [outboundOpen EXCEPT ![n] = FALSE]
    /\ events' = events + 1
    /\ UNCHANGED <<outbound, nextId, stream, streamEnded, inbound, inboundOpen, notify,
                   notified, pc, calls, rejected, last, net, taken>>

\* The receiver of the notify channel is dropped.
DropNotifyRx(n) ==
    /\ events < MaxEvents
    /\ notify[n] = "open"
    /\ notify' = [notify EXCEPT ![n] = "closed"]
    /\ events' = events + 1
    /\ UNCHANGED <<outbound, outboundOpen, nextId, stream, streamEnded, inbound,
                   inboundOpen, notified, pc, calls, rejected, last, net, taken>>

\* The client's stream of inbound packets ends.
EndStream(n) ==
    /\ events < MaxEvents
    /\ ~streamEnded[n]
    /\ streamEnded' = [streamEnded EXCEPT ![n] = TRUE]
    /\ events' = events + 1
    /\ UNCHANGED <<outbound, outboundOpen, nextId, stream, inbound, inboundOpen, notify,
                   notified, pc, calls, rejected, last, net, taken>>

\* Node A's pump between its upper layer, third parties and the mixnet.
\* Packets A addresses to itself come back to it; those for B stay with the
\* mixnet.
Next ==
    \/ \E p \in Producers, e \in OutEnvelopes : Produce(p, "A", e)
    \/ CheckOutboundRecv("A")
    \/ CheckOutboundClosed("A")
    \/ \E ok \in BOOLEAN : SendResolve("A", ok)
    \/ CheckInboundNext("A")
    \/ CheckInboundEnd("A")
    \/ \E pkt \in net : pkt.dest = "A" /\ NetDeliver(pkt)
    \/ \E pkt \in ExtPackets : External("A", pkt)
    \/ DropInboundRx("A")
    \/ DropOutboundTx("A")
    \/ DropNotifyRx("A")
    \/ EndStream("A")

Spec == Init /\ [][Next]_vars

\* The loopback test: no notify channel, one Data message addressed to the
\* node's own address, a client that accepts the send and a mixnet that
\* delivers; nothing else reaches the node.
LoopMessages ==
    { TransportMessage(k, c, SubstreamMessage(sid, Data(d))) :
        k \in Nonces, c \in ConnectionIds, sid \in SubstreamIds, d \in Payloads }

InitLoopback == Init /\ notify["A"] = "none"

NextLoopback ==
    \/ \E p \in Producers, m \in LoopMessages :
            nextId = 1 /\ Produce(p, "A", Envelope(m, "A", None))
    \/ CheckOutboundRecv("A")
    \/ SendResolve("A", TRUE)
    \/ CheckInboundNext("A")
    \/ \E pkt \in net : NetDeliver(pkt)

SpecLoopback ==
    /\ InitLoopback
    /\ [][NextLoopback]_vars
    /\ WF_vars(CheckOutboundRecv("A"))
    /\ WF_vars(SendResolve("A", TRUE))
    /\ WF_vars(CheckInboundNext("A"))
    /\ WF_vars(\E pkt \in net : NetDeliver(pkt))

\* The ping-then-close scenario: A's upper layer enqueues Data("ping") and
\* then Close on the same substream for its peer B; A's client accepts the
\* sends, third parties may write to A, the mixnet delivers in any order and
\* both pumps run.
NextScenario ==
    \/ \E p \in Producers : nextId = 1 /\ Produce(p, "A", Envelope(PingMsg, "B", None))
    \/ \E p \in Producers : nextId = 2 /\ Produce(p, "A", Envelope(CloseMsg, "B", None))
    \/ CheckOutboundRecv("A")
    \/ SendResolve("A", TRUE)
    \/ \E n \in Nodes : CheckInboundNext(n)
    \/ \E pkt \in ExtPackets : External("A", pkt)
    \/ \E pkt \in net : NetDeliver(pkt)

SpecScenario == Init /\ [][NextScenario]_vars

\* Sustained traffic: the layer above keeps enqueueing replies to a third
\* party and third parties keep writing to A, with every channel open and the
\* stream never ending; the client may accept or refuse a send or leave it
\* unresolved.
\*
\* The layer above receives what is queued on inbound_rx (and on the notify
\* channel).  The records of finished work go with it: only the call in flight
\* and the messages still queued are kept, numbered afresh in queue order, and
\* the traffic still outstanding is what counts against MaxEvents.
DrainInboundRx(n) ==
    /\ events > Len(outbound[n]) + Len(stream[n])
    /\ LET k == IF pc[n] = "send" THEN 1 ELSE 0
           c == calls[n][Len(calls[n])]
       IN  /\ calls' = [calls EXCEPT ![n] =
                 IF k = 1 THEN <<[c EXCEPT !.id = 1, !.env.id = 1]>> ELSE <<>>]
           /\ outbound' = [outbound EXCEPT ![n] =
                 [i \in DOMAIN @ |-> [@[i] EXCEPT !.id = k + i]]]
           /\ nextId' = k + Len(outbound[n]) + 1
    /\ inbound' = [inbound EXCEPT ![n] = <<>>]
    /\ notified' = [notified EXCEPT ![n] = 0]
    /\ taken' = [taken EXCEPT ![n] = <<>>]
    /\ rejected' = [rejected EXCEPT ![n] = <<>>]
    /\ events' = Len(outbound[n]) + Len(stream[n])
    /\ UNCHANGED <<outboundOpen, stream, streamEnded, inboundOpen, notify, pc, last, net>>

\* The two branches of select! while the channels are open: t1 completes
\* when the client has a packet, t2 takes a message when the queue has one.
SelectInbound(n) == CheckInboundNext(n)

\* A variant of select! that polls t1 first and t2 only when t1 is not ready.
SelectOutboundAfterInbound(n) == stream[n] = <<>> /\ CheckOutboundRecv(n)

SelectOutbound(n) == CheckOutboundRecv(n)

NextSustained ==
    \/ \E p \in Producers : Produce(p, "A", Envelope(PingMsg, None, ExtTag))
    \/ \E pkt \in ExtPackets : External("A", pkt)
    \/ SelectInbound("A")
    \/ SelectOutbound("A")
    \/ \E ok \in BOOLEAN : SendResolve("A", ok)
    \/ DrainInboundRx("A")

\* select! picks among the ready branches at random: a branch that stays
\* ready is completed in the end.
SpecSustained ==
    /\ Init
    /\ [][NextSustained]_vars
    /\ WF_vars(SelectInbound("A"))
    /\ WF_vars(SelectOutbound("A"))

\* ------------------------------------------------------------- properties
Routed(e) == e.recipient # None \/ e.sender_tag # None
Decodable(t) == from_bytes(t.packet.message).ok
Delivered(t) == t.result = "Unimplemented"
ChannelClosed == {"RecvFailure", "InboundSendFailure"}

\* C1: while the outbound queue is open, every message with a route that
\* the pump removes from the queue is handed to send or reply and that call
\* runs to completion: none is dropped on the way.
C1_RoutedMessagesAreDispatched ==
    \A n \in Nodes :
        outboundOpen[n] =>
            /\ \A i \in DOMAIN calls[n] : calls[n][i].state # "cancelled"
            /\ \A i \in DOMAIN rejected[n] : ~Routed(rejected[n][i])

\* C2: the addressing mode of every call comes from the envelope alone: a
\* sender_tag means reply to that tag, with or without a recipient; only a
\* recipient means direct send to it; the bytes are the encoded message.
C2_AddressingPrecedence ==
    \A n \in Nodes : \A i \in DOMAIN calls[n] :
        LET c == calls[n][i]
            e == c.env
        IN  /\ e.sender_tag # None => c.kind = "reply" /\ c.to = e.sender_tag
            /\ e.sender_tag = None /\ e.recipient # None =>
                    c.kind = "send" /\ c.to = e.recipient
            /\ c.bytes = to_bytes(e.message)

C2_Witness ==
    \E i, j \in DOMAIN calls["A"] :
        /\ calls["A"][i].env.recipient # None
        /\ calls["A"][i].env.sender_tag # None
        /\ calls["A"][i].kind = "reply"
        /\ calls["A"][j].env.sender_tag = None
        /\ calls["A"][j].kind = "send"

\* C3: a message without recipient and sender_tag is rejected with an error
\* and never reaches send or reply; the pump goes on and can take the
\* messages queued behind it.
C3_UnroutedRejected ==
    \A n \in Nodes :
        /\ \A i \in DOMAIN calls[n] : Routed(calls[n][i].env)
        /\ \A i \in DOMAIN rejected[n] :
                \A j \in DOMAIN calls[n] : calls[n][j].id # rejected[n][i].id
        /\ rejected[n] # <<>> =>
                /\ pc[n] # "exited"
                /\ outbound[n] # <<>> /\ pc[n] # "send" => ENABLED CheckOutboundRecv(n)
        /\ pc[n] # "send" /\ last[n].branch = "outbound" /\ last[n].took = "message"
                /\ rejected[n] # <<>> /\ (calls[n] = <<>> \/
                        calls[n][Len(calls[n])].id < rejected[n][Len(rejected[n])].id)
                => last[n].result = "OutboundSendFailure"

C3_Witness ==
    \E i \in DOMAIN rejected["A"], j \in DOMAIN calls["A"] :
        /\ calls["A"][j].id > rejected["A"][i].id
        /\ calls["A"][j].state = "ok"

\* C4: a packet that does not decode puts nothing on the inbound queue and
\* does not stop the pump; with the inbound queue and the notify channel
\* open, every decodable packet taken, also after an undecodable one, is on
\* the inbound queue, decoded.
C4_MalformedPacketSkipped ==
    \A n \in Nodes :
        LET D == SelectSeq(taken[n], Decodable)
        IN  /\ Len(inbound[n]) <= Len(D)
            /\ inboundOpen[n] /\ notify[n] # "closed" =>
                    /\ Len(inbound[n]) = Len(D)
                    /\ \A i \in DOMAIN D :
                            inbound[n][i].message = from_bytes(D[i].packet.message).msg
            /\ (\E i \in DOMAIN taken[n] : ~Decodable(taken[n][i])) =>
                    /\ pc[n] # "exited"
                    /\ stream[n] # <<>> => ENABLED CheckInboundNext(n)

C4_Witness ==
    \E i, j \in DOMAIN taken["A"] :
        /\ i < j
        /\ ~Decodable(taken["A"][i])
        /\ Decodable(taken["A"][j])
        /\ Delivered(taken["A"][j])
        /\ inbound["A"] # <<>>

\* C5: a failed send or reply call does not stop the pump: afterwards it
\* can still take the next outbound message and the next inbound packet.
C5_SendFailureDoesNotStopPump ==
    \A n \in Nodes :
        (\E i \in DOMAIN calls[n] : calls[n][i].state = "failed") =>
            /\ pc[n] # "exited"
            /\ outbound[n] # <<>> /\ pc[n] # "send" => ENABLED CheckOutboundRecv(n)
            /\ stream[n] # <<>> => ENABLED CheckInboundNext(n)

C5_Witness ==
    /\ \E i, j \in DOMAIN calls["A"] :
            /\ i < j
            /\ calls["A"][i].state = "failed"
            /\ calls["A"][j].state = "ok"
    /\ last["A"].branch = "inbound"
    /\ last["A"].took = "packet"
    /\ taken["A"] # <<>> /\ Delivered(taken["A"][Len(taken["A"])])

\* C7: a channel-closed error (the inbound receiver or every outbound
\* sender dropped) ends the pump task.
C7_ChannelClosedStopsPump ==
    \A n \in Nodes : last[n].result \in ChannelClosed => pc[n] = "exited"

\* C8: with a notify channel, the signals sent on it are as many as the
\* InboundMessages placed on the inbound queue.
C8_OneSignalPerDelivery ==
    \A n \in Nodes : notify[n] # "none" => notified[n] = Len(inbound[n])

\* C9: the InboundMessages on the inbound queue carry, in order, exactly the
\* sender tags of the packets they were decoded from.
C9_TagOfOwnPacket ==
    \A n \in Nodes :
        LET D == SelectSeq(taken[n], Delivered)
        IN  /\ Len(inbound[n]) = Len(D)
            /\ \A i \in DOMAIN D : inbound[n][i].sender_tag = D[i].packet.sender_tag

C9_Witness ==
    \E i, j \in DOMAIN inbound["A"] :
        /\ inbound["A"][i].sender_tag = None
        /\ inbound["A"][j].sender_tag = ExtTag
        /\ Delivered(taken["A"][Len(taken["A"])])

\* C6: loopback: the one Data message the node addresses to itself ends as
\* exactly one InboundMessage on its inbound queue, a TransportMessage with
\* the SubstreamId and the Data bytes that were sent.
SameSubstreamAndData(im, m) ==
    /\ im.message.kind = "TransportMessage"
    /\ im.message.message.substream_id = m.message.substream_id
    /\ im.message.message.message_type = m.message.message_type

C6_LoopbackDelivery ==
    \A m \in LoopMessages :
        /\ [](calls["A"] # <<>> /\ calls["A"][1].env.message = m =>
                /\ Len(inbound["A"]) <= 1
                /\ \A i \in DOMAIN inbound["A"] : SameSubstreamAndData(inbound["A"][i], m))
        /\ (outbound["A"] # <<>> /\ Head(outbound["A"]).message = m)
                ~> (Len(inbound["A"]) = 1 /\ SameSubstreamAndData(inbound["A"][1], m))

C6_Witness ==
    /\ Len(calls["A"]) = 1
    /\ calls["A"][1].env.recipient = "A"
    /\ calls["A"][1].env.message.message.message_type = Data(Hello)
    /\ calls["A"][1].state = "ok"
    /\ Len(inbound["A"]) = 1
    /\ inbound["A"][1].message = calls["A"][1].env.message

\* C10 as stated: the peer's inbound queue yields Data("ping") on S1 before
\* it yields any Close for S1.
IsClose(im) == im.message = CloseMsg
IsPing(im) == im.message = PingMsg

C10_PingBeforeCloseAtPeer ==
    \A i \in DOMAIN inbound["B"] :
        IsClose(inbound["B"][i]) => \E j \in 1..(i - 1) : IsPing(inbound["B"][j])

\* C10 amended: the sender's pump starts the send of Data("ping") before the
\* send of Close, and the peer's inbound queue yields the two, as sent, in
\* the order in which the peer's client yielded their packets.
C10_PingSentFirstPeerKeepsOrder ==
    /\ \A i \in DOMAIN calls["A"] :
            calls["A"][i].env.message = CloseMsg =>
                \E j \in 1..(i - 1) : calls["A"][j].env.message = PingMsg
    /\ Len(inbound["B"]) = Len(taken["B"])
    /\ \A i \in DOMAIN taken["B"] :
            /\ to_bytes(inbound["B"][i].message) = taken["B"][i].packet.message
            /\ inbound["B"][i].message \in {PingMsg, CloseMsg}

C10_Witness ==
    /\ Len(calls["A"]) = 2
    /\ calls["A"][1].env.message = PingMsg
    /\ calls["A"][2].env.message = CloseMsg
    /\ Len(inbound["B"]) = 2
    /\ IsClose(inbound["B"][1])
    /\ IsPing(inbound["B"][2])

\* C11: a send or reply call the pump has started is never cancelled by
\* this layer: it is in progress exactly while the pump awaits it, and once
\* the pump has left it the mixnet client has resolved it.
C11_StartedCallRunsUntilResolved ==
    \A n \in Nodes : \A i \in DOMAIN calls[n] :
        /\ calls[n][i].state \in {"pending", "ok", "failed"}
        /\ calls[n][i].state = "pending" <=> (pc[n] = "send" /\ i = Len(calls[n]))

\* C15: every completed iteration of the pump has consumed an inbound
\* packet or an outbound message, also after the outbound senders are
\* dropped or the client's stream has ended.
C15_IterationConsumesSomething ==
    \A n \in Nodes : last[n].branch # "none" => last[n].took \in {"packet", "message"}

\* C18: a dequeued message leads to at most one send or reply call: no two
\* calls are for the same message, and a message for which a call was made,
\* failed or not, is not on the queue again.
C18_AtMostOneCallPerMessage ==
    \A n \in Nodes :
        /\ \A i, j \in DOMAIN calls[n] : calls[n][i].id = calls[n][j].id => i = j
        /\ \A i \in DOMAIN calls[n] :
                /\ \A k \in DOMAIN outbound[n] : outbound[n][k].id # calls[n][i].id
                /\ \A k \in DOMAIN rejected[n] : rejected[n][k].id # calls[n][i].id
        /\ \A k, l \in DOMAIN outbound[n] :
                outbound[n][k].id = outbound[n][l].id => k = l

C18_Witness ==
    /\ \E i \in DOMAIN calls["A"] : calls["A"][i].state = "failed"
    /\ outbound["A"] = <<>>
    /\ last["A"].result = "Unimplemented"
    /\ last["A"].branch = "outbound"
    /\ pc["A"] = "select"

\* C19: calls are started in the order in which their messages were put on
\* the outbound queue, and a call starts only after every earlier call has
\* finished or been abandoned.
C19_DispatchInQueueOrder ==
    \A n \in Nodes : \A i, j \in DOMAIN calls[n] :
        i < j =>
            /\ calls[n][i].id < calls[n][j].id
            /\ calls[n][i].state \in {"ok", "failed", "cancelled"}

C19_Witness ==
    /\ Len(calls["A"]) = 2
    /\ calls["A"][1].state = "cancelled"
    /\ calls["A"][2].state = "ok"
    /\ calls["A"][1].env # calls["A"][2].env

\* C13: with a notify channel, the signal for an inbound message is sent
\* before the message is put on the inbound queue: in the handling of every
\* packet, the queueing is preceded by the notify send and not followed by it.
Position(seq, x) == CHOOSE i \in DOMAIN seq : seq[i] = x

Attempted(t, x) == \E i \in DOMAIN t.effects : t.effects[i] = x

C13_NotifyBeforeQueue ==
    \A n \in Nodes : \A i \in DOMAIN taken[n] :
        LET t == taken[n][i]
        IN  notify[n] # "none" /\ Attempted(t, "queue") =>
                /\ Attempted(t, "notify")
                /\ \A k \in DOMAIN t.effects :
                        t.effects[k] = "notify" => k < Position(t.effects, "queue")

C13_Witness ==
    /\ notify["A"] = "open"
    /\ notified["A"] = 1
    /\ Len(inbound["A"]) = 1
    /\ Len(taken["A"]) = 1
    /\ taken["A"][1].effects = <<"notify", "decode", "queue">>

\* C14: the inbound queue holds, decoded, exactly the packets the pump
\* forwarded, in the order and as many times as the client yielded them; with
\* the inbound queue and the notify channel open every decodable packet is
\* forwarded, whatever its nonce and connection id.
DecodedOf(t) == parse_message_data(t.packet.message, t.packet.sender_tag).data

C14_NoReorderNoDedup ==
    \A n \in Nodes :
        LET F == SelectSeq(taken[n], Delivered)
        IN  /\ Len(inbound[n]) = Len(F)
            /\ \A i \in DOMAIN F : inbound[n][i] = DecodedOf(F[i])
            /\ inboundOpen[n] /\ notify[n] # "closed" =>
                    F = SelectSeq(taken[n], Decodable)

C14_Witness ==
    /\ Len(taken["A"]) = 3
    /\ Len(inbound["A"]) = 3
    /\ inbound["A"][1] = inbound["A"][3]
    /\ inbound["A"][1] # inbound["A"][2]
    /\ inbound["A"][1].message.nonce = inbound["A"][2].message.nonce
    /\ inbound["A"][1].message.id = inbound["A"][2].message.id

\* C16: a packet the client has yielded is not lost to outbound activity: in
\* the step that takes it, if it decodes and the inbound queue and the notify
\* channel (if any) are open, it is appended once to the inbound queue, also
\* when a send or reply call was pending; no other step changes the queue.
C16_TakenPacketIsQueuedOnce ==
    [][\A n \in Nodes :
          IF taken'[n] # taken[n]
             THEN LET t == taken'[n][Len(taken'[n])]
                  IN  /\ taken'[n] = Append(taken[n], t)
                      /\ t.packet = Head(stream[n])
                      /\ Decodable(t) /\ inboundOpen[n] /\ notify[n] # "closed" =>
                            inbound'[n] = Append(inbound[n], DecodedOf(t))
             ELSE inbound'[n] = inbound[n]]_vars

C16_Witness ==
    /\ calls["A"] # <<>>
    /\ calls["A"][Len(calls["A"])].state = "cancelled"
    /\ last["A"].branch = "inbound"
    /\ taken["A"] # <<>>
    /\ Delivered(taken["A"][Len(taken["A"])])
    /\ inbound["A"] = <<DecodedOf(taken["A"][Len(taken["A"])])>>

\* C17: with the receiver of the notify channel dropped, a packet taken from
\* the client is neither decoded nor queued: the step that takes it returns
\* the error of the notify send and leaves the inbound queue as it was, open
\* or not.
C17_ClosedNotifyDiscardsPacket ==
    [][\A n \in Nodes :
          notify[n] = "closed" /\ taken'[n] # taken[n] =>
              LET t == taken'[n][Len(taken'[n])]
              IN  /\ inbound'[n] = inbound[n]
                  /\ notified'[n] = notified[n]
                  /\ t.result = "InboundSendFailure"
                  /\ ~Attempted(t, "decode")
                  /\ ~Attempted(t, "queue")]_vars

C17_Witness ==
    /\ notify["A"] = "closed"
    /\ inboundOpen["A"]
    /\ taken["A"] # <<>>
    /\ Decodable(taken["A"][Len(taken["A"])])
    /\ taken["A"][Len(taken["A"])].effects = <<"notify">>
    /\ last["A"] = [branch |-> "inbound", result |-> "InboundSendFailure", took |-> "packet"]
    /\ inbound["A"] = <<>>

\* C12: neither direction starves the other: if packets keep being ready at
\* the client, messages do not wait on the outbound queue for ever (the queue
\* is empty again and again, or the pump dequeues again and again); if
\* messages keep being queued, packets do not wait at the client for ever.
C12_NeitherDirectionStarves ==
    /\ []<>(stream["A"] # <<>>) =>
            \/ []<>(outbound["A"] = <<>>)
            \/ []<><<SelectOutbound("A")>>_vars
    /\ []<>(outbound["A"] # <<>>) =>
            \/ []<>(stream["A"] = <<>>)
            \/ []<><<SelectInbound("A")>>_vars

C12_Witness ==
    /\ last["A"].branch = "inbound"
    /\ stream["A"] # <<>>
    /\ outbound["A"] # <<>>
    /\ pc["A"] = "send"
    /\ calls["A"][Len(calls["A"])].state = "pending"

====
